---- MODULE Spec2Model ----
(***************************************************************************)
(* Model of the iced note editor (src/src/main.rs): the Editor model, its  *)
(* update function (the message reducer), the asynchronous commands        *)
(* pick_file / load_file / save_file run by the executor, and the files    *)
(* they read and write.                                                    *)
(***************************************************************************)
EXTENDS Integers, Sequences, FiniteSets, Bags, TLC

\* ------------------------------------------------------------------ bounds
MaxLen == 2
MaxTasks == 2

\* ------------------------------------------------------------ value spaces
Chars == {"a"}

Texts == UNION {[1..n -> Chars] : n \in 0..MaxLen}

default_file == "/src/main.rs"

Paths == {default_file, "/tmp/a.md"}

NoPath == "None"

\* Paths a file dialog can also return: an upper-case extension, no extension,
\* a dot file, an empty extension, and names that are not UTF-8 (the byte "<FF>").
AllPaths ==
  Paths \cup {"/tmp/B.MD", "/tmp/notes", "/tmp/.rc", "/tmp/a.", "/tmp/x.<FF>", "/<FF>/c.md"}

\* the bytes of a path, one per element
PathBytes(p) ==
  CASE p = "/src/main.rs" -> <<"/", "s", "r", "c", "/", "m", "a", "i", "n", ".", "r", "s">>
    [] p = "/tmp/a.md" -> <<"/", "t", "m", "p", "/", "a", ".", "m", "d">>
    [] p = "/tmp/B.MD" -> <<"/", "t", "m", "p", "/", "B", ".", "M", "D">>
    [] p = "/tmp/notes" -> <<"/", "t", "m", "p", "/", "n", "o", "t", "e", "s">>
    [] p = "/tmp/.rc" -> <<"/", "t", "m", "p", "/", ".", "r", "c">>
    [] p = "/tmp/a." -> <<"/", "t", "m", "p", "/", "a", ".">>
    [] p = "/tmp/x.<FF>" -> <<"/", "t", "m", "p", "/", "x", ".", "<FF>">>
    [] p = "/<FF>/c.md" -> <<"/", "<FF>", "/", "c", ".", "m", "d">>

\* Option<&str>::None and Option<&OsStr>::None
NoStr == "None"

NoOsStr == <<"None">>

\* the last position of byte c in b, 0 when there is none
LastIndexOf(b, c) ==
  IF \E i \in 1..Len(b) : b[i] = c
  THEN CHOOSE i \in 1..Len(b) : b[i] = c /\ \A j \in (i + 1)..Len(b) : b[j] # c
  ELSE 0

IsUtf8(b) == \A i \in 1..Len(b) : b[i] # "<FF>"

\* Path::to_str: the path as text, when it is UTF-8
path_to_str(p) == IF IsUtf8(PathBytes(p)) THEN p ELSE NoStr

\* Path::file_name, for the absolute file paths of the model
file_name(p) ==
  SubSeq(PathBytes(p), LastIndexOf(PathBytes(p), "/") + 1, Len(PathBytes(p)))

\* a slip: a leading dot starts an extension too
extension_of_dot_file(p) ==
  LET name == file_name(p)
      dot == LastIndexOf(name, ".")
  IN  IF dot = 0 THEN NoOsStr ELSE SubSeq(name, dot + 1, Len(name))

\* Path::extension: the part of the file name after its last dot; none when the
\* name has no dot or only a leading one
extension(p) ==
  LET name == file_name(p)
      dot == LastIndexOf(name, ".")
  IN  IF dot <= 1 THEN NoOsStr ELSE SubSeq(name, dot + 1, Len(name))

\* OsStr::to_str on an extension
ext_to_str(e) == IF e = NoOsStr \/ ~IsUtf8(e) THEN NoOsStr ELSE e

Themes == {"SolarizedDark", "InspiredGitHub"}

\* highlighter::Theme::is_dark
is_dark(t) == t # "InspiredGitHub"

IoKinds == {"NotFound", "PermissionDenied"}

\* Display of io::ErrorKind
ErrorKindText(k) ==
  CASE k = "NotFound" -> "entity not found"
    [] k = "PermissionDenied" -> "permission denied"

\* enum Error and the None of Option<Error>
NoError == [tag |-> "None", kind |-> "-"]

DialogClosed == [tag |-> "DialogClosed", kind |-> "-"]

IOFailed(k) == [tag |-> "IOFailed", kind |-> k]

Errors == {DialogClosed} \cup {IOFailed(k) : k \in IoKinds}

\* text_editor::Action: Action::Edit(..) variants and the others
NoAction == [kind |-> "-", arg |-> "-"]

Actions ==
  {[kind |-> "Insert", arg |-> c] : c \in Chars}
    \cup {[kind |-> "Backspace", arg |-> "-"]}
    \cup {[kind |-> "Move", arg |-> d] : d \in {"Left", "Right"}}

is_edit(a) == a.kind \in {"Insert", "Backspace"}

\* text_editor::Content, by its text: new(), with(&str), text() and edit(action).
\* An insertion appends, a backspace removes the last character, a motion leaves
\* the text as it is.
ContentNew == <<>>

ContentWith(s) == s

ContentText(c) == c

ContentEdit(c, a) ==
  CASE a.kind = "Insert" -> Append(c, a.arg)
    [] a.kind = "Backspace" -> IF c = <<>> THEN c ELSE SubSeq(c, 1, Len(c) - 1)
    [] OTHER -> c

\* enum Message, as one record shape
NoMessage ==
  [type |-> "None", ok |-> FALSE, path |-> NoPath, text |-> <<>>,
   error |-> NoError, action |-> NoAction, theme |-> "-"]

MsgEdit(a) == [NoMessage EXCEPT !.type = "Edit", !.action = a]

MsgNew == [NoMessage EXCEPT !.type = "New"]

MsgOpen == [NoMessage EXCEPT !.type = "Open"]

MsgSave == [NoMessage EXCEPT !.type = "Save"]

MsgThemeSelected(t) == [NoMessage EXCEPT !.type = "ThemeSelected", !.theme = t]

MsgFileSavedOk(p) == [NoMessage EXCEPT !.type = "FileSaved", !.ok = TRUE, !.path = p]

MsgFileSavedErr(e) == [NoMessage EXCEPT !.type = "FileSaved", !.error = e]

MsgFileOpenedOk(p, s) ==
  [NoMessage EXCEPT !.type = "FileOpened", !.ok = TRUE, !.path = p, !.text = s]

MsgFileOpenedErr(e) == [NoMessage EXCEPT !.type = "FileOpened", !.error = e]

UserMessages ==
  {MsgEdit(a) : a \in Actions} \cup {MsgNew, MsgOpen, MsgSave}
    \cup {MsgThemeSelected(t) : t \in Themes}

CompletionMessages ==
  {MsgFileSavedOk(p) : p \in AllPaths}
    \cup {MsgFileSavedErr(e) : e \in Errors}
    \cup {MsgFileOpenedOk(p, s) : p \in AllPaths, s \in Texts}
    \cup {MsgFileOpenedErr(e) : e \in Errors}

\* iced::Command<Message>, as returned by update
CmdNone == [kind |-> "none", path |-> NoPath, text |-> <<>>]

CmdLoad(p) == [kind |-> "load", path |-> p, text |-> <<>>]

CmdPick == [kind |-> "pick", path |-> NoPath, text |-> <<>>]

CmdSave(p, s) == [kind |-> "save", path |-> p, text |-> s]

VARIABLES path, content, error, theme, is_dirty, message, issued, tasks, fs, lastIO, run, nth

model == <<path, content, error, theme, is_dirty>>

vars == <<path, content, error, theme, is_dirty, message, issued, tasks, fs, lastIO, run, nth>>

\* ------------------------------------------------------- files and tasks
NoFile == <<"ENOENT">>

Untouched == <<"untouched">>

\* at startup the default file (the program's own source) is there, the other path is free
InitFiles == [p \in Paths |-> IF p = default_file THEN <<"a">> ELSE NoFile]

\* a future that has run to its end: only its output is left
Done(out, w) ==
  [kind |-> "done", stage |-> "done", path |-> NoPath, text |-> <<>>,
   io |-> w, result |-> out]

\* Command::perform: the future starts at its first await
NewTask(cmd) ==
  [kind |-> cmd.kind,
   stage |-> IF cmd.kind = "pick" \/ (cmd.kind = "save" /\ cmd.path = NoPath)
             THEN "dialog" ELSE "io",
   path |-> cmd.path, text |-> cmd.text, io |-> "-", result |-> NoMessage]

\* the executor's running futures, a bag: equal commands may run side by side
HasFreeSlot == BagCardinality(tasks) < MaxTasks

Spawn(ts, cmd) ==
  IF cmd = CmdNone THEN ts ELSE ts (+) SetToBag({NewTask(cmd)})

Replace(ts, t, u) == (ts (-) SetToBag({t})) (+) SetToBag({u})

Running == BagToSet(tasks)

\* ------------------------------------------------------- Editor::new
Init ==
  /\ path = NoPath
  /\ content = ContentNew
  /\ error = NoError
  /\ theme = "SolarizedDark"
  /\ is_dirty = TRUE
  /\ message = NoMessage
  /\ issued = CmdLoad(default_file)
  /\ tasks = Spawn(EmptyBag, CmdLoad(default_file))
  /\ fs = InitFiles
  /\ lastIO = [p \in Paths |-> Untouched]
  /\ run = [phase |-> "off", path |-> NoPath, text |-> <<>>]
  /\ nth = "new"

\* ------------------------------------------------------- Editor::update
\* a slip: every Edit message dirties the buffer, whatever its action
UpdateEditAlways(a) ==
  /\ is_dirty' = TRUE
  /\ error' = NoError
  /\ content' = ContentEdit(content, a)
  /\ issued' = CmdNone
  /\ UNCHANGED <<path, theme>>

\* a slip: the flag is overwritten by the action's class, not or-ed with it
UpdateEditOverwrite(a) ==
  /\ is_dirty' = is_edit(a)
  /\ error' = NoError
  /\ content' = ContentEdit(content, a)
  /\ issued' = CmdNone
  /\ UNCHANGED <<path, theme>>

UpdateEdit(a) ==
  /\ is_dirty' = (is_dirty \/ is_edit(a))
  /\ error' = NoError
  /\ content' = ContentEdit(content, a)
  /\ issued' = CmdNone
  /\ UNCHANGED <<path, theme>>

\* a slip: a new document is taken to be clean
UpdateNewClean ==
  /\ path' = NoPath
  /\ content' = ContentNew
  /\ is_dirty' = FALSE
  /\ issued' = CmdNone
  /\ UNCHANGED <<error, theme>>

UpdateNew ==
  /\ path' = NoPath
  /\ content' = ContentNew
  /\ is_dirty' = TRUE
  /\ issued' = CmdNone
  /\ UNCHANGED <<error, theme>>

\* a slip: Save marks the buffer clean at once, before the write is done
UpdateSaveOptimistic ==
  /\ issued' = CmdSave(path, ContentText(content))
  /\ is_dirty' = FALSE
  /\ UNCHANGED <<path, content, error, theme>>

UpdateSave ==
  /\ issued' = CmdSave(path, ContentText(content))
  /\ UNCHANGED model

\* the strict rule: is_dirty is cleared only if the buffer is what the file holds
UpdateFileSavedOkStrict(p) ==
  /\ path' = p
  /\ is_dirty' = (p \in Paths /\ fs[p] # ContentText(content))
  /\ issued' = CmdNone
  /\ UNCHANGED <<content, error, theme>>

UpdateFileSavedOk(p) ==
  /\ path' = p
  /\ is_dirty' = FALSE
  /\ issued' = CmdNone
  /\ UNCHANGED <<content, error, theme>>

\* a slip: a failed save is handled like a finished one
UpdateFileSavedErrClean(e) ==
  /\ error' = e
  /\ is_dirty' = FALSE
  /\ issued' = CmdNone
  /\ UNCHANGED <<path, content, theme>>

UpdateFileSavedErr(e) ==
  /\ error' = e
  /\ issued' = CmdNone
  /\ UNCHANGED <<path, content, theme, is_dirty>>

UpdateOpen ==
  /\ issued' = CmdPick
  /\ UNCHANGED model

UpdateFileOpenedOk(p, s) ==
  /\ path' = p
  /\ content' = ContentWith(s)
  /\ is_dirty' = FALSE
  /\ issued' = CmdNone
  /\ UNCHANGED <<error, theme>>

\* a slip: a failed open drops the document
UpdateFileOpenedErrReset(e) ==
  /\ error' = e
  /\ path' = NoPath
  /\ issued' = CmdNone
  /\ UNCHANGED <<content, theme, is_dirty>>

UpdateFileOpenedErr(e) ==
  /\ error' = e
  /\ issued' = CmdNone
  /\ UNCHANGED <<path, content, theme, is_dirty>>

\* a slip: picking a theme counts as a change of the document
UpdateThemeSelectedDirty(t) ==
  /\ theme' = t
  /\ is_dirty' = TRUE
  /\ issued' = CmdNone
  /\ UNCHANGED <<path, content, error>>

UpdateThemeSelected(t) ==
  /\ theme' = t
  /\ issued' = CmdNone
  /\ UNCHANGED <<path, content, error, is_dirty>>

update(m) ==
  CASE m.type = "Edit" -> UpdateEdit(m.action)
    [] m.type = "New" -> UpdateNew
    [] m.type = "Save" -> UpdateSave
    [] m.type = "FileSaved" /\ m.ok -> UpdateFileSavedOk(m.path)
    [] m.type = "FileSaved" /\ ~m.ok -> UpdateFileSavedErr(m.error)
    [] m.type = "Open" -> UpdateOpen
    [] m.type = "FileOpened" /\ m.ok -> UpdateFileOpenedOk(m.path, m.text)
    [] m.type = "FileOpened" /\ ~m.ok -> UpdateFileOpenedErr(m.error)
    [] m.type = "ThemeSelected" -> UpdateThemeSelected(m.theme)

\* The run of Edit messages reduced since the model was last clean: "clean" while
\* every action of the run was a non-edit, "edited" once one was an edit, "off"
\* when the run did not start from a clean model.
RunNext(m) ==
  IF m.type = "Edit" /\ run.phase # "off"
  THEN IF is_edit(m.action)
       THEN [phase |-> "edited", path |-> NoPath, text |-> <<>>]
       ELSE run
  ELSE IF is_dirty'
       THEN [phase |-> "off", path |-> NoPath, text |-> <<>>]
       ELSE [phase |-> "clean", path |-> path', text |-> ContentText(content')]

\* how many messages update has reduced: none ("new"), one ("first"), more ("later")
NthNext == IF nth = "new" THEN "first" ELSE "later"

\* the text buffer is bounded: an insertion needs room
Fits(m) ==
  m.type = "Edit" /\ m.action.kind = "Insert" => Len(ContentText(content)) < MaxLen

\* one reducer invocation
Reduce(m) ==
  /\ Fits(m)
  /\ message' = m
  /\ update(m)
  /\ run' = RunNext(m)
  /\ nth' = NthNext

\* ------------------------------------------------------- the shell
\* A message from the view or the keyboard subscription is reduced and the
\* command update returns is handed to the executor.
Dispatch(m) ==
  /\ m.type \in {"Open", "Save"} => HasFreeSlot
  /\ Reduce(m)
  /\ tasks' = Spawn(tasks, issued')
  /\ UNCHANGED <<fs, lastIO>>

Edit(a) == Dispatch(MsgEdit(a))

New == Dispatch(MsgNew)

Open == Dispatch(MsgOpen)

\* bool::then_some, with NoMessage for None
then_some(b, m) == IF b THEN m ELSE NoMessage

\* action(content, label, on_press): the button, its message and its style
action(label, on_press) ==
  [label |-> label, on_press |-> on_press,
   style |-> IF on_press = NoMessage THEN "Secondary" ELSE "Primary"]

\* a slip: the Save button is built like the New and Open buttons
SaveButtonAlways == action("Save file", MsgSave)

\* Editor::view: the third button of the toolbar
SaveButton == action("Save file", then_some(is_dirty, MsgSave))

\* a press of the Save button: on_press_maybe emits the message, if there is one
PressSave ==
  /\ SaveButton.on_press # NoMessage
  /\ Dispatch(SaveButton.on_press)

Keys == {"S", "A"}

\* Editor::subscription: the closure given to keyboard::on_key_press
subscription(key_code, command) ==
  IF key_code = "S" /\ command THEN MsgSave ELSE NoMessage

\* a slip: the shortcut follows the Save button and works on a dirty buffer only
KeySaveIfDirty ==
  \E k \in Keys, c \in BOOLEAN :
    /\ is_dirty
    /\ subscription(k, c) # NoMessage
    /\ Dispatch(subscription(k, c))

\* a key press the subscription maps to a message
KeySave ==
  \E k \in Keys, c \in BOOLEAN :
    /\ subscription(k, c) # NoMessage
    /\ Dispatch(subscription(k, c))

Save == PressSave \/ KeySave

\* Editor::theme: the window's theme
window_theme == IF is_dark(theme) THEN "Dark" ELSE "Light"

\* Editor::view: the highlighter::Settings given to the text editor
highlighter_settings ==
  [theme |-> theme,
   extension |->
     IF path = NoPath THEN <<"r", "s">>
     ELSE IF ext_to_str(extension(path)) = NoOsStr THEN <<"r", "s">>
     ELSE ext_to_str(extension(path))]

\* a slip: the path is shown before the error
status_left_path_first ==
  IF path # NoPath /\ path_to_str(path) # NoStr
  THEN [text |-> path_to_str(path), size |-> 14]
  ELSE IF error.tag = "IOFailed"
       THEN [text |-> ErrorKindText(error.kind), size |-> 0]
       ELSE [text |-> "New file", size |-> 0]

\* Editor::view: the left text of the status bar (size 0: the default size)
status_left ==
  IF error.tag = "IOFailed"
  THEN [text |-> ErrorKindText(error.kind), size |-> 0]
  ELSE IF path # NoPath /\ path_to_str(path) # NoStr
       THEN [text |-> path_to_str(path), size |-> 14]
       ELSE [text |-> "New file", size |-> 0]

ThemeSelected(t) == Dispatch(MsgThemeSelected(t))

\* ------------------------------------------------------- the executor
Quiet == message' = NoMessage /\ issued' = CmdNone /\ UNCHANGED <<model, run, nth>>

\* pick_file: the native dialog returns a handle or None
PickFileDialog(t) ==
  /\ t.kind = "pick" /\ t.stage = "dialog"
  /\ \/ \E p \in Paths :
          tasks' = Replace(tasks, t, [t EXCEPT !.stage = "io", !.path = p])
     \/ tasks' = Replace(tasks, t, Done(MsgFileOpenedErr(DialogClosed), "-"))
  /\ Quiet
  /\ UNCHANGED <<fs, lastIO>>

\* load_file: the value of read_to_string, mapped to the future's output
load_file_result(p, r) ==
  IF r.ok THEN MsgFileOpenedOk(p, r.contents) ELSE MsgFileOpenedErr(IOFailed(r.kind))

ReadOutcomes(p) ==
  (IF fs[p] # NoFile
   THEN {[ok |-> TRUE, contents |-> fs[p], kind |-> "-"]}
   ELSE {[ok |-> FALSE, contents |-> <<>>, kind |-> "NotFound"]})
    \cup {[ok |-> FALSE, contents |-> <<>>, kind |-> "PermissionDenied"]}

LoadFile(t) ==
  /\ t.kind \in {"load", "pick"} /\ t.stage = "io"
  /\ \E r \in ReadOutcomes(t.path) :
       /\ tasks' = Replace(tasks, t, Done(load_file_result(t.path, r), "-"))
       /\ lastIO' = IF r.ok THEN [lastIO EXCEPT ![t.path] = r.contents] ELSE lastIO
  /\ Quiet
  /\ UNCHANGED fs

\* save_file: the save dialog, when no path was given
SaveFileDialog(t) ==
  /\ t.kind = "save" /\ t.stage = "dialog"
  /\ \/ \E p \in Paths :
          tasks' = Replace(tasks, t, [t EXCEPT !.stage = "io", !.path = p])
     \/ tasks' = Replace(tasks, t, Done(MsgFileSavedErr(DialogClosed), "-"))
  /\ Quiet
  /\ UNCHANGED <<fs, lastIO>>

\* save_file: the value of tokio::fs::write ("ok" or an error kind) is mapped and
\* dropped; the future's output is Ok(path)
save_file_result(p, w) == MsgFileSavedOk(p)

WriteOutcomes == {"ok", "PermissionDenied"}

\* a slip: the future reads the live buffer when it gets to write
WriteFileLive(t) ==
  /\ t.kind = "save" /\ t.stage = "io"
  /\ \E w \in WriteOutcomes :
       /\ tasks' = Replace(tasks, t, Done(save_file_result(t.path, w), w))
       /\ fs' = IF w = "ok" THEN [fs EXCEPT ![t.path] = ContentText(content)] ELSE fs
       /\ lastIO' = IF w = "ok" THEN [lastIO EXCEPT ![t.path] = ContentText(content)]
                    ELSE lastIO
  /\ Quiet

WriteFile(t) ==
  /\ t.kind = "save" /\ t.stage = "io"
  /\ \E w \in WriteOutcomes :
       /\ tasks' = Replace(tasks, t, Done(save_file_result(t.path, w), w))
       /\ fs' = IF w = "ok" THEN [fs EXCEPT ![t.path] = t.text] ELSE fs
       /\ lastIO' = IF w = "ok" THEN [lastIO EXCEPT ![t.path] = t.text] ELSE lastIO
  /\ Quiet

\* the completion of a command comes back as a message
Deliver(t) ==
  /\ t.stage = "done"
  /\ Reduce(t.result)
  /\ tasks' = tasks (-) SetToBag({t})
  /\ UNCHANGED <<fs, lastIO>>

Next ==
  \/ \E a \in Actions : Edit(a)
  \/ New
  \/ Open
  \/ Save
  \/ \E t \in Themes : ThemeSelected(t)
  \/ \E t \in Running : PickFileDialog(t)
  \/ \E t \in Running : LoadFile(t)
  \/ \E t \in Running : SaveFileDialog(t)
  \/ \E t \in Running : WriteFile(t)
  \/ \E t \in Running : Deliver(t)

Spec == Init /\ [][Next]_vars

\* ------------------------------------------------------- the reducer alone
\* update applied to any message of the Message type, in any state it leads to;
\* the command it returns is left in issued and not run.
Apply(m) ==
  /\ Reduce(m)
  /\ UNCHANGED <<tasks, fs, lastIO>>

NextUpdate == \E m \in UserMessages \cup CompletionMessages : Apply(m)

SpecUpdate == Init /\ [][NextUpdate]_vars

\* =================================================================== claims

\* C1: whenever is_dirty is false, either path is set and the buffer text is the
\* text last read from or written to that path, or path is absent and the buffer
\* is empty.
C1_CleanMatchesFile ==
  ~is_dirty =>
    \/ /\ path # NoPath
       /\ lastIO[path] # Untouched
       /\ ContentText(content) = lastIO[path]
    \/ /\ path = NoPath
       /\ ContentText(content) = <<>>

\* C2: right after FileOpened(Ok(p, s)) is reduced, path = p, the buffer text is s,
\* is_dirty is false and error is absent.
C2_CleanAfterLoad ==
  (message.type = "FileOpened" /\ message.ok) =>
    /\ path = message.path
    /\ ContentText(content) = message.text
    /\ ~is_dirty
    /\ error = NoError

\* C3: right after FileSaved(Ok(p)) is reduced, path = p, is_dirty is false and
\* error is absent.
C3_CleanAfterSave ==
  (message.type = "FileSaved" /\ message.ok) =>
    /\ path = message.path
    /\ ~is_dirty
    /\ error = NoError

\* C4: reducing FileOpened(Err(DialogClosed)) or FileSaved(Err(DialogClosed))
\* leaves path, content, error, theme and is_dirty as they were, and error never
\* holds DialogClosed.
C4_CancellationIsSilent ==
  /\ [](error # DialogClosed)
  /\ [][message' \in {MsgFileOpenedErr(DialogClosed), MsgFileSavedErr(DialogClosed)}
          => UNCHANGED model]_vars

\* C5: a save command whose write failed with kind k completes as
\* FileSaved(Err(IoFailed(k))), never as FileSaved(Ok(path)).
C5_FailedWriteIsReported ==
  \A t \in Running :
    (t.stage = "done" /\ t.io \in IoKinds) => t.result = MsgFileSavedErr(IOFailed(t.io))

\* C6: after a run of Edit messages that started from a clean model and held at
\* least one content-modifying action, is_dirty is true.
C6_EditsDirty == run.phase = "edited" => is_dirty

C6_Witness ==
  /\ run.phase = "edited"
  /\ message.type = "Edit"
  /\ ~is_edit(message.action)
  /\ is_dirty

\* C7: after a run of Edit messages that started from a clean model and held only
\* non-content-modifying actions, is_dirty is still false and path and the buffer
\* text are those the run started with.
C7_MovesKeepClean ==
  run.phase = "clean" =>
    /\ ~is_dirty
    /\ path = run.path
    /\ ContentText(content) = run.text

C7_Witness ==
  /\ run.phase = "clean"
  /\ message = MsgEdit([kind |-> "Move", arg |-> "Left"])
  /\ ~is_dirty
  /\ path # NoPath
  /\ ContentText(content) # <<>>

\* C8: reducing New leaves path absent, the buffer empty, is_dirty true, error and
\* theme as they were, and returns no command.
C8_NewResets ==
  [][message' = MsgNew =>
       /\ path' = NoPath
       /\ ContentText(content') = <<>>
       /\ is_dirty'
       /\ error' = error
       /\ theme' = theme
       /\ issued' = CmdNone]_vars

C8_Witness ==
  /\ message = MsgNew
  /\ path = NoPath
  /\ is_dirty
  /\ error \in Errors
  /\ theme # "SolarizedDark"

\* C9: reducing FileOpened(Err(IoFailed(k))) or FileSaved(Err(IoFailed(k))) sets
\* error to IoFailed(k) and leaves path, content, theme and is_dirty as they were.
C9_IoErrorStored ==
  [][\A k \in IoKinds :
       message' \in {MsgFileOpenedErr(IOFailed(k)), MsgFileSavedErr(IOFailed(k))}
         => /\ error' = IOFailed(k)
            /\ UNCHANGED <<path, content, theme, is_dirty>>]_vars

C9_Witness ==
  /\ message = MsgFileOpenedErr(IOFailed("NotFound"))
  /\ error = IOFailed("NotFound")
  /\ path # NoPath
  /\ ContentText(content) # <<>>
  /\ ~is_dirty

\* C10: a stored IoFailed error is cleared by the next Edit, FileOpened(Ok) or
\* FileSaved(Ok), and is neither cleared nor replaced by New, Open, Save,
\* ThemeSelected or a dialog cancellation.
C10_ErrorLifetime ==
  [][(error.tag = "IOFailed" /\ message' # NoMessage) =>
       /\ (\/ message'.type = "Edit"
           \/ (message'.type \in {"FileOpened", "FileSaved"} /\ message'.ok))
            => error' = NoError
       /\ (\/ message'.type \in {"New", "Open", "Save", "ThemeSelected"}
           \/ message' \in {MsgFileOpenedErr(DialogClosed), MsgFileSavedErr(DialogClosed)})
            => error' = error]_vars

\* C11: before any message is reduced the model has no path, an empty buffer, no
\* error and a dark theme, with one load of the default file running; once that
\* load's FileOpened is the first message reduced, is_dirty is false.
C11_StartupClean ==
  /\ nth = "new" =>
       /\ path = NoPath /\ ContentText(content) = <<>> /\ error = NoError
       /\ is_dark(theme)
       /\ BagCardinality(tasks) = 1
       /\ \A t \in Running :
            \/ t = NewTask(CmdLoad(default_file))
            \/ (t.stage = "done" /\ t.result.type = "FileOpened")
  /\ (nth = "first" /\ message.type = "FileOpened") => ~is_dirty

\* C12: the save command started by Save holds the buffer text of that moment;
\* no message reduced later changes a pending save command's text or path, the
\* dialog keeps the text, the write puts exactly that text into the file, and no
\* step of a command changes the buffer.
C12_SaveSnapshot ==
  [][
      /\ message' = MsgSave =>
          LET t == [kind |-> "save",
                    stage |-> IF path = NoPath THEN "dialog" ELSE "io",
                    path |-> path, text |-> ContentText(content),
                    io |-> "-", result |-> NoMessage]
          IN  CopiesIn(t, tasks') = CopiesIn(t, tasks) + 1
      /\ message' # NoMessage =>
          \A t \in Running : t.kind = "save" => CopiesIn(t, tasks') >= CopiesIn(t, tasks)
      /\ \A t \in Running :
           (t.kind = "save" /\ t.stage = "dialog" /\ CopiesIn(t, tasks') < CopiesIn(t, tasks))
             => \/ \E u \in BagToSet(tasks') :
                     /\ u.kind = "save" /\ u.stage = "io" /\ u.text = t.text
                     /\ CopiesIn(u, tasks') > CopiesIn(u, tasks)
                \/ CopiesIn(Done(MsgFileSavedErr(DialogClosed), "-"), tasks')
                     > CopiesIn(Done(MsgFileSavedErr(DialogClosed), "-"), tasks)
      /\ fs' # fs =>
           \E t \in Running :
             /\ t.kind = "save" /\ t.stage = "io"
             /\ CopiesIn(t, tasks') < CopiesIn(t, tasks)
             /\ fs' = [fs EXCEPT ![t.path] = t.text]
      /\ message' = NoMessage => content' = content
    ]_vars

C12_Witness ==
  /\ message = NoMessage
  /\ is_dirty
  /\ \E t \in Running :
       /\ t.stage = "done" /\ t.io = "ok"
       /\ t.result.type = "FileSaved" /\ t.result.ok
       /\ fs[t.result.path] = <<"a">>
       /\ ContentText(content) = <<"a", "a">>

\* C13: reducing Save changes no model field and starts exactly one save command;
\* with a path set the command is at its write, to that path, with no dialog; with
\* no path it is at the save dialog, and when the dialog is cancelled no file is
\* written and the command's completion is FileSaved(Err(DialogClosed)).
C13_SaveCommand ==
  [][
      /\ message' = MsgSave =>
           /\ UNCHANGED model
           /\ issued' = CmdSave(path, ContentText(content))
           /\ BagCardinality(tasks') = BagCardinality(tasks) + 1
           /\ \E t \in BagToSet(tasks') :
                /\ CopiesIn(t, tasks') = CopiesIn(t, tasks) + 1
                /\ t.kind = "save" /\ t.path = path
                /\ t.stage = IF path = NoPath THEN "dialog" ELSE "io"
      /\ \A t \in Running :
           (t.kind = "save" /\ t.stage = "dialog" /\ CopiesIn(t, tasks') < CopiesIn(t, tasks)
              /\ \A u \in BagToSet(tasks') :
                   (u.kind = "save" /\ u.stage = "io")
                     => CopiesIn(u, tasks') <= CopiesIn(u, tasks))
             => /\ fs' = fs
                /\ CopiesIn(Done(MsgFileSavedErr(DialogClosed), "-"), tasks')
                     = CopiesIn(Done(MsgFileSavedErr(DialogClosed), "-"), tasks) + 1
      /\ \A t \in Running :
           (t.kind = "save" /\ t.stage = "io") => t.path \in Paths
    ]_vars

C13_Witness ==
  /\ path = NoPath
  /\ fs = InitFiles
  /\ message = NoMessage
  /\ nth = "first"
  /\ Done(MsgFileSavedErr(DialogClosed), "-") \in Running

\* C14: the Save button carries the Save message exactly when is_dirty is true;
\* when is_dirty is false it carries no message and has the disabled style.
C14_SaveButton ==
  /\ SaveButton.on_press = MsgSave <=> is_dirty
  /\ ~is_dirty => (SaveButton.on_press = NoMessage /\ SaveButton.style = "Secondary")
  /\ ENABLED PressSave => is_dirty

C14_Witness ==
  /\ ~is_dirty
  /\ SaveButton.on_press = NoMessage
  /\ message.type = "FileOpened"
  /\ run.phase = "clean"

\* C15 as claimed: the left of the status bar is the error's text when error is
\* an IoFailed error (also with a path set), else the path's string form when path
\* is set, else "New file".
C15_StatusLeft ==
  status_left.text =
    IF error.tag = "IOFailed" THEN ErrorKindText(error.kind)
    ELSE IF path # NoPath THEN path
    ELSE "New file"

\* C15, amended: the left of the status bar is the error's text when error is an
\* IoFailed error (also with a path set), else the path as text when path is set
\* and is valid UTF-8, else "New file" (also for a path that is not UTF-8).
C15_StatusLeftUtf8 ==
  /\ error.tag = "IOFailed" => status_left.text \in {"entity not found", "permission denied"}
  /\ error = IOFailed("NotFound") => status_left.text = "entity not found"
  /\ error = IOFailed("PermissionDenied") => status_left.text = "permission denied"
  /\ (error.tag # "IOFailed" /\ path # NoPath /\ \A i \in DOMAIN PathBytes(path) :
                                                     PathBytes(path)[i] # "<FF>")
       => status_left.text = path
  /\ (error.tag # "IOFailed" /\ path # NoPath /\ \E i \in DOMAIN PathBytes(path) :
                                                     PathBytes(path)[i] = "<FF>")
       => status_left.text = "New file"
  /\ (error.tag # "IOFailed" /\ path = NoPath) => status_left.text = "New file"

C15_Witness ==
  /\ error = IOFailed("NotFound")
  /\ path = "/tmp/a.md"
  /\ status_left.text = "entity not found"

\* C16 as claimed: the highlighter's extension is the lower-cased final extension
\* of path when path is set and has a text-decodable extension, "rs" otherwise,
\* and its theme is the model's theme.
C16_ExtensionLowercased ==
  LET Lower(c) == CASE c = "B" -> "b" [] c = "M" -> "m" [] c = "D" -> "d" [] OTHER -> c
      name == file_name(path)
      exts == {SubSeq(name, k + 1, Len(name)) : k \in {j \in 2..Len(name) : name[j] = "."}}
      final == {e \in exts : (\A i \in 1..Len(e) : e[i] # ".") /\ IsUtf8(e)}
  IN  /\ highlighter_settings.theme = theme
      /\ highlighter_settings.extension =
           IF path # NoPath /\ final # {}
           THEN LET e == CHOOSE x \in final : TRUE
                IN  [i \in 1..Len(e) |-> Lower(e[i])]
           ELSE <<"r", "s">>

\* C16, amended: the highlighter's extension is the final extension of path as it
\* is written, with no change of case, when path is set and has a text-decodable
\* extension, "rs" otherwise, and its theme is the model's theme.
C16_ExtensionAsWritten ==
  LET name == file_name(path)
      exts == {SubSeq(name, k + 1, Len(name)) : k \in {j \in 2..Len(name) : name[j] = "."}}
      final == {e \in exts : (\A i \in 1..Len(e) : e[i] # ".") /\ IsUtf8(e)}
  IN  /\ highlighter_settings.theme = theme
      /\ highlighter_settings.extension =
           IF path # NoPath /\ final # {}
           THEN CHOOSE x \in final : TRUE
           ELSE <<"r", "s">>

C16_Witness ==
  /\ path = "/tmp/B.MD"
  /\ highlighter_settings.extension = <<"M", "D">>
  /\ theme = "InspiredGitHub"
  /\ highlighter_settings.theme = "InspiredGitHub"

\* C17: reducing ThemeSelected(t) sets theme to t, leaves path, content, error and
\* is_dirty as they were and returns no command; the window theme is dark exactly
\* when the selected highlighter theme is dark.
C17_ThemeSelected ==
  /\ [](/\ window_theme \in {"Dark", "Light"}
        /\ window_theme = "Dark" <=> theme = "SolarizedDark"
        /\ window_theme = "Light" <=> theme = "InspiredGitHub")
  /\ [][\A t \in Themes :
          message' = MsgThemeSelected(t) =>
            /\ theme' = t
            /\ UNCHANGED <<path, content, error, is_dirty>>
            /\ issued' = CmdNone]_vars

C17_Witness ==
  /\ message = MsgThemeSelected("InspiredGitHub")
  /\ theme = "InspiredGitHub"
  /\ window_theme = "Light"
  /\ ~is_dirty
  /\ error \in Errors

\* C18: FileSaved(Ok(p)) sets is_dirty to false and keeps the buffer, also when it
\* is the completion of a write that succeeded and edits reduced since the Save
\* have made the buffer differ from the text written (the simple rule).
C18_SimpleRule ==
  [][
      /\ (message'.type = "FileSaved" /\ message'.ok) =>
           (~is_dirty' /\ content' = content /\ path' = message'.path)
      /\ \A t \in Running :
           (/\ t.stage = "done" /\ t.io = "ok" /\ t.result.type = "FileSaved"
            /\ CopiesIn(t, tasks') < CopiesIn(t, tasks)
            /\ fs[t.result.path] # ContentText(content))
             => (~is_dirty' /\ ContentText(content') # fs'[t.result.path])
    ]_vars

C18_Witness ==
  /\ message = MsgFileSavedOk("/tmp/a.md")
  /\ ~is_dirty
  /\ path = "/tmp/a.md"
  /\ ContentText(content) = <<"a", "a">>
  /\ fs["/tmp/a.md"] = <<"a">>
  /\ lastIO[default_file] = Untouched

\* C19: is_dirty goes from true to false only in the reduction of FileOpened(Ok)
\* or FileSaved(Ok); Edit, New, Open, Save, ThemeSelected and the Err completions
\* keep a true is_dirty true.
C19_OnlySuccessCleans ==
  [][
      /\ (is_dirty /\ ~is_dirty') =>
           (message'.type \in {"FileOpened", "FileSaved"} /\ message'.ok)
      /\ (is_dirty /\ (message'.type \in {"Edit", "New", "Open", "Save", "ThemeSelected"}
                        \/ (message'.type \in {"FileOpened", "FileSaved"} /\ ~message'.ok)))
           => is_dirty'
    ]_vars

C19_Witness ==
  /\ is_dirty
  /\ message = MsgFileSavedErr(IOFailed("PermissionDenied"))
  /\ error = IOFailed("PermissionDenied")
  /\ run.phase = "off"
  /\ path # NoPath
  /\ ContentText(content) # <<>>

\* C20: the key S with the command modifier gives a Save message in every state,
\* also with is_dirty false (the executor's room permitting, in the model), and
\* reducing Save starts a save command for the buffer text of that moment whatever
\* is_dirty is, so that commands add up.
C20_ShortcutSaves ==
  /\ [](subscription("S", TRUE) = MsgSave /\ (HasFreeSlot => ENABLED KeySave))
  /\ [][message' = MsgSave =>
          /\ issued' = CmdSave(path, ContentText(content))
          /\ BagCardinality(tasks') = BagCardinality(tasks) + 1]_vars

C20_Witness ==
  /\ ~is_dirty
  /\ SaveButton.on_press = NoMessage
  /\ message = MsgSave
  /\ issued = CmdSave(path, ContentText(content))
  /\ BagCardinality(tasks) = 2
  /\ \A t \in Running : t.kind = "save" /\ t.stage = "io" /\ t.text = ContentText(content)
====
